---- MODULE Spec2Model ----
(***************************************************************************)
(* The indexing substrate of go-grok's cgrok: the TCTREE shim over libdict *)
(* (cgrok/tree.c, "Index"), the singly linked TCLIST ("Bucket List") and   *)
(* the capture registry of grok_capture.c with its four indices.           *)
(*                                                                         *)
(* Memory is modelled in cells.  A buffer is a sequence of cells; a C      *)
(* string is a buffer that ends with the cell 0.  An int key is its four   *)
(* little-endian bytes.  A struct (grok_capture, TCLIST) fills one cell.    *)
(* Heap objects the code reaches through pointers that are shared between  *)
(* copies (list nodes, list elements) live in the variable heap and are    *)
(* named by their address; address 0 is the null pointer.                  *)
(***************************************************************************)
EXTENDS Integers, Sequences, FiniteSets, TLC

VARIABLES
  tree,      \* the TCTREE under test: [cp, dict, iter]
  last,      \* ghost: for every key, the buffer the Index should hold, or NULL
  yielded,   \* ghost: the keys tctreeiternext returned since the last tctreeiterinit
  iterst,    \* ghost: "none" | "fresh" | "done" | "stale" | "dangling"
  list,      \* the TCLIST under test: [head, len]
  heap,      \* address -> heap object (list nodes and list element buffers)
  shadow,    \* ghost: the sequence of values the TCLIST should hold
  grok,      \* the grok_t: the four capture indices
  reg,       \* ghost: what the adds so far should have left in the registry
  capture,   \* the grok_capture the caller holds
  thr,       \* the reading threads: where each is in its lookup
  op         \* the last operation, its arguments and what it returned

vars == <<tree, last, yielded, iterst, list, heap, shadow, grok, reg, capture, thr, op>>

-----------------------------------------------------------------------------
(* Bounds of the model *)

\* the longest TCLIST the list specification builds
MaxLen == 3
\* the number of grok_capture_add calls in one behaviour
MaxAdds == 3
\* the number of grok_capture_set_extra calls in one behaviour
MaxSets == 2

-----------------------------------------------------------------------------
(* Buffers, C strings and 32-bit ints *)

\* the null pointer to a buffer: every buffer the code allocates holds at
\* least its terminator cell, so no buffer is the empty sequence
NULL == <<>>

\* sizeof(int), the ksiz of the id and capture-number keys
SizeofInt == 4

\* the bytes of a 32-bit int in memory (little endian, two's complement)
Int32Bytes(i) ==
  LET v == IF i < 0 THEN (i + 2147483647) + 1 ELSE i
  IN  << v % 256, (v \div 256) % 256, (v \div 65536) % 256,
         ((v \div 16777216) % 128) + (IF i < 0 THEN 128 ELSE 0) >>

\* *(int *)p : the 32-bit int stored in the first four cells of a buffer
Int32At(p) ==
  LET v == p[1] + 256 * p[2] + 65536 * p[3] + 16777216 * (p[4] % 128)
  IN  IF p[4] >= 128 THEN (v - 2147483647) - 1 ELSE v

\* the C string with the given characters
CStr(chars) == chars \o <<0>>

RECURSIVE strlen(_)
strlen(s) == IF s[1] = 0 THEN 0 ELSE 1 + strlen(Tail(s))

\* strstr(s, ":") != NULL
Colon == 58
RECURSIVE HasColon(_)
HasColon(s) == IF s[1] = 0 THEN FALSE ELSE IF s[1] = Colon THEN TRUE ELSE HasColon(Tail(s))

-----------------------------------------------------------------------------
(* cgrok/tree.c: the TCTREE shim *)

\* libdict's dict_int_cmp on two key payloads
dict_int_cmp(a, b) ==
  LET x == Int32At(a)  y == Int32At(b)
  IN  IF x < y THEN -1 ELSE IF x > y THEN 1 ELSE 0

\* libdict's dict_str_cmp (strcmp) on two key payloads
RECURSIVE dict_str_cmp(_, _)
dict_str_cmp(a, b) ==
  LET p == a[1]  q == b[1]
  IN  IF p = 0 \/ p # q
      THEN (IF p > q THEN 1 ELSE IF p < q THEN -1 ELSE 0)
      ELSE dict_str_cmp(Tail(a), Tail(b))

\* tccmpint32 with its two keys passed to dict_int_cmp in the wrong order
tccmpint32_swapped(k1, k2) == dict_int_cmp(k2.buf, k1.buf)

\* the two comparators skip the four-byte length header: k+4 is the payload
tccmpint32(k1, k2) == dict_int_cmp(k1.buf, k2.buf)

dict_var_str_cmp(k1, k2) == dict_str_cmp(k1.buf, k2.buf)

\* the comparator bound to a dict by hb_dict_new
Compare(cp, k1, k2) ==
  IF cp = "tccmpint32" THEN tccmpint32(k1, k2) ELSE dict_var_str_cmp(k1, k2)

\* tcpack: uint32_t size + body + terminator
tcpack(value, size) == [size |-> size, buf |-> SubSeq(value, 1, size) \o <<0>>]

\* an iterator that is on no node (dict_itor_key gives NULL)
NoNode == [size |-> -1, buf |-> NULL]

\* tctreenew2: an empty dict and no iterator
tctreenew2(cp) == [cp |-> cp, dict |-> <<>>, iter |-> [alloc |-> FALSE, node |-> NoNode]]

\* tctreenew: the default comparator is for strings
tctreenew == tctreenew2("dict_var_str_cmp")

\* the number of entries of the dict that sort before key
dict_rank(t, key) ==
  Cardinality({i \in 1..Len(t.dict) : Compare(t.cp, t.dict[i].key, key) < 0})

\* dict_search: the datum stored under key, or NULL
dict_search(t, key) ==
  LET at == dict_rank(t, key) + 1
  IN  IF at <= Len(t.dict) /\ Compare(t.cp, t.dict[at].key, key) = 0
      THEN t.dict[at].val ELSE [size |-> 0, buf |-> NULL]

\* dict_insert: the slot of key, created (datum unset) when the key is new
dict_insert(t, key) ==
  LET at == dict_rank(t, key) + 1
      found == at <= Len(t.dict) /\ Compare(t.cp, t.dict[at].key, key) = 0
  IN  [inserted |-> ~found,
       at |-> at,
       dict |-> IF found THEN t.dict
                ELSE SubSeq(t.dict, 1, at - 1)
                     \o << [key |-> key, val |-> [size |-> 0, buf |-> NULL]] >>
                     \o SubSeq(t.dict, at, Len(t.dict))]

\* tctreeput with the assignment of the new value moved into a branch for a
\* new key: an existing key keeps its old value
tctreeput_keepsold(t, kbuf, ksiz, vbuf, vsiz) ==
  LET key == tcpack(kbuf, ksiz)
      val == tcpack(vbuf, vsiz)
      r == dict_insert(t, key)
  IN  IF r.inserted THEN [t EXCEPT !.dict = [r.dict EXCEPT ![r.at].val = val]] ELSE t

\* tctreeput: insert, or overwrite the value of an existing key
tctreeput(t, kbuf, ksiz, vbuf, vsiz) ==
  LET key == tcpack(kbuf, ksiz)
      val == tcpack(vbuf, vsiz)
      r == dict_insert(t, key)
  IN  [t EXCEPT !.dict = [r.dict EXCEPT ![r.at].val = val]]

\* tctreeputkeep that stores the value whether or not the key is new
tctreeputkeep_overwrites(t, kbuf, ksiz, vbuf, vsiz) ==
  LET key == tcpack(kbuf, ksiz)
      val == tcpack(vbuf, vsiz)
      r == dict_insert(t, key)
  IN  [tree |-> [t EXCEPT !.dict = [r.dict EXCEPT ![r.at].val = val]],
       ret |-> r.inserted]

\* tctreeputkeep: insert; an existing key keeps its value and false is returned
tctreeputkeep(t, kbuf, ksiz, vbuf, vsiz) ==
  LET key == tcpack(kbuf, ksiz)
      val == tcpack(vbuf, vsiz)
      r == dict_insert(t, key)
  IN  [tree |-> IF r.inserted
                THEN [t EXCEPT !.dict = [r.dict EXCEPT ![r.at].val = val]]
                ELSE t,
       ret |-> r.inserted]

\* tctreeget: value+4 and *sp, or NULL and 0
tctreeget(t, kbuf, ksiz) ==
  LET key == tcpack(kbuf, ksiz)
      value == dict_search(t, key)
  IN  IF value.buf # NULL THEN [ptr |-> value.buf, sp |-> value.size]
      ELSE [ptr |-> NULL, sp |-> 0]

\* tctreeiterinit: a new iterator (the old one is freed) on the first key
tctreeiterinit(t) ==
  [t EXCEPT !.iter = [alloc |-> TRUE,
                      node |-> IF Len(t.dict) = 0 THEN NoNode ELSE t.dict[1].key]]

\* dict_itor_next from a node: its in-order successor in the dict as it is now
dict_itor_succ(t) ==
  LET at == dict_rank(t, t.iter.node) + 2
  IN  IF at <= Len(t.dict) THEN t.dict[at].key ELSE NoNode

\* tctreeiternext that calls dict_itor_next before dict_itor_key
tctreeiternext_nextfirst(t, wrap) ==
  LET nxt == IF t.iter.node = NoNode
             THEN (IF wrap /\ Len(t.dict) > 0 THEN t.dict[1].key ELSE NoNode)
             ELSE dict_itor_succ(t)
  IN  [tree |-> [t EXCEPT !.iter.node = nxt],
       ptr |-> nxt.buf,
       sp |-> IF nxt = NoNode THEN 0 ELSE nxt.size]

\* tctreeiternext that tests the reported size instead of the key pointer
tctreeiternext_sizetest(t, wrap) ==
  LET key == t.iter.node
      nxt == IF key = NoNode
             THEN (IF wrap /\ Len(t.dict) > 0 THEN t.dict[1].key ELSE NoNode)
             ELSE dict_itor_succ(t)
  IN  [tree |-> [t EXCEPT !.iter.node = nxt],
       ptr |-> IF key = NoNode \/ key.size = 0 THEN NULL ELSE key.buf,
       sp |-> IF key = NoNode THEN 0 ELSE key.size]

\* tctreeclear: dict_clear frees every node with its key and value; the
\* iterator is left as it is, on the node it was on
tctreeclear(t) == [t EXCEPT !.dict = <<>>]

\* tctreeiternext: the key under the iterator, which then moves on.  wrap tells
\* what libdict's dict_itor_next does from an iterator that is on no node: it
\* stays there, or (older libdict) moves to the first key.
tctreeiternext(t, wrap) ==
  LET key == t.iter.node
      nxt == IF key = NoNode
             THEN (IF wrap /\ Len(t.dict) > 0 THEN t.dict[1].key ELSE NoNode)
             ELSE dict_itor_succ(t)
  IN  [tree |-> [t EXCEPT !.iter.node = nxt],
       ptr |-> key.buf,
       sp |-> IF key = NoNode THEN 0 ELSE key.size]

-----------------------------------------------------------------------------
(* The heap *)

\* malloc: an address that is not in use (the lowest one)
malloc(h) == CHOOSE a \in 1..(Cardinality(DOMAIN h) + 1) :
               a \notin DOMAIN h /\ \A b \in 1..(a - 1) : b \in DOMAIN h

\* the heap with a new or changed object at address a
Store(h, a, obj) == [b \in DOMAIN h \cup {a} |-> IF b = a THEN obj ELSE h[b]]

\* free
Free(h, a) == [b \in DOMAIN h \ {a} |-> h[b]]

\* a field that was never assigned holds an indeterminate value
Indet == [init |-> FALSE, v |-> 0]

Val(x) == [init |-> TRUE, v |-> x]

-----------------------------------------------------------------------------
(* cgrok/tree.c: the TCLIST, a singly linked list behind a head sentinel *)

\* tclistnew: the TCLIST and its sentinel node, whose elem is 0 and whose size
\* and next are not assigned
tclistnew(h) ==
  LET self == malloc(h)
      h1 == Store(h, self, [head |-> 0, len |-> 0])
      newElem == malloc(h1)
      l == [head |-> newElem, len |-> 0]
  IN  [heap |-> Store(Store(h1, newElem, [size |-> Indet, elem |-> 0, next |-> Indet]),
                      self, l),
       list |-> l, self |-> self]

\* tclistnum
tclistnum(l) == l.len

\* tclistpack: a copy of the value with a terminator
tclistpack(h, buf, size) ==
  LET elem == malloc(h)
  IN  [heap |-> Store(h, elem, SubSeq(buf, 1, size) \o <<0>>), ptr |-> elem]

\* head = head->next, n times
RECURSIVE Follow(_, _, _)
Follow(h, head, n) == IF n <= 0 THEN head ELSE Follow(h, h[head].next.v, n - 1)

\* the number of times each loop runs head = head->next
tclistpush_steps(l) == l.len

tclistremove_steps(index) == index

tclistover_steps(index) == index + 1

\* tclistval whose loop runs once more (i <= index + 1)
tclistval_steps_onemore(index) == index + 2

tclistval_steps(index) == index + 1

tclistdel_steps(l) == l.len

\* tclistpush: append after the len-th node
tclistpush(h, l, ptr, size) ==
  LET head == Follow(h, l.head, tclistpush_steps(l))
      newElem == malloc(h)
      h1 == Store(h, newElem, [size |-> Indet, elem |-> 0, next |-> Indet])
      packed == tclistpack(h1, ptr, size)
      h2 == Store(packed.heap, newElem,
                  [size |-> Val(size), elem |-> packed.ptr, next |-> Indet])
  IN  [heap |-> [h2 EXCEPT ![head].next = Val(newElem)],
       list |-> [l EXCEPT !.len = l.len + 1]]

\* tclistremove: unlink and free the node at index, return its element
tclistremove(h, l, index) ==
  IF index < 0 \/ index >= l.len
  THEN [heap |-> h, list |-> l, ret |-> 0, sp |-> Indet]
  ELSE LET head == Follow(h, l.head, tclistremove_steps(index))
           removed == h[head].next.v
       IN  [heap |-> Free([h EXCEPT ![head].next = h[removed].next], removed),
            list |-> [l EXCEPT !.len = l.len - 1],
            ret |-> h[removed].elem,
            sp |-> h[removed].size]

\* tclistover whose bounds check misses the negative indexes
tclistover_nolowcheck(h, l, index, ptr, size) ==
  IF index >= l.len
  THEN [heap |-> h, list |-> l]
  ELSE LET head == Follow(h, l.head, index + 1)
           h1 == IF h[head].elem # 0 THEN Free(h, h[head].elem) ELSE h
           packed == tclistpack(h1, ptr, size)
       IN  [heap |-> [packed.heap EXCEPT ![head].elem = packed.ptr,
                                         ![head].size = Val(size)],
            list |-> l]

\* tclistover: replace the element at index; nothing when out of bounds
tclistover(h, l, index, ptr, size) ==
  IF index < 0 \/ index >= l.len
  THEN [heap |-> h, list |-> l]
  ELSE LET head == Follow(h, l.head, tclistover_steps(index))
           h1 == IF h[head].elem # 0 THEN Free(h, h[head].elem) ELSE h
           packed == tclistpack(h1, ptr, size)
       IN  [heap |-> [packed.heap EXCEPT ![head].elem = packed.ptr,
                                         ![head].size = Val(size)],
            list |-> l]

\* tclistval whose loop stops one node early (i < index)
tclistval_oneshort(h, l, index) ==
  IF index >= l.len
  THEN [ret |-> 0, sp |-> Indet]
  ELSE LET head == Follow(h, l.head, index)
       IN  [ret |-> h[head].elem, sp |-> h[head].size]

\* tclistval: the element at index, NULL when index >= len.  A negative index
\* runs no loop step and reads the sentinel, whose elem is 0.
tclistval(h, l, index) ==
  IF index >= l.len
  THEN [ret |-> 0, sp |-> Indet]
  ELSE LET head == Follow(h, l.head, tclistval_steps(index))
       IN  [ret |-> h[head].elem, sp |-> h[head].size]

\* the loop of tclistdel: n times, free the element of head when it has one,
\* move head on and free the node it was on
RECURSIVE tclistdel_loop(_, _, _)
tclistdel_loop(h, head, n) ==
  IF n <= 0 THEN h
  ELSE tclistdel_loop(
         Free(IF h[head].elem # 0 THEN Free(h, h[head].elem) ELSE h, head),
         h[head].next.v, n - 1)

\* tclistdel: the loop from the sentinel, then free the TCLIST at self
tclistdel(h, self) ==
  Free(tclistdel_loop(h, h[self].head, tclistdel_steps(h[self])), self)

-----------------------------------------------------------------------------
(* grok_capture.c: the capture registry *)

CAPTURE_NUMBER_NOT_SET == -1

\* sizeof(grok_capture) and sizeof(TCLIST), in cells
SizeofCapture == 1

SizeofList == 1

\* the shared "unset" string
EMPTYSTR == CStr(<<>>)

\* grok_capture_init: every field at its "unset" value
grok_capture_init ==
  [id |-> CAPTURE_NUMBER_NOT_SET, pcre_capture_number |-> CAPTURE_NUMBER_NOT_SET,
   name |-> NULL, name_len |-> 0, subname |-> NULL, subname_len |-> 0,
   pattern |-> NULL, pattern_len |-> 0,
   predicate_lib |-> NULL, predicate_func_name |-> NULL,
   extra |-> [extra_len |-> 0, extra_val |-> NULL]]

\* the grok_t's four trees: ids and capture numbers are int keys, names and
\* subnames are string keys
grok_new ==
  [captures_by_id |-> tctreenew2("tccmpint32"),
   captures_by_name |-> tctreenew,
   captures_by_subname |-> tctreenew,
   captures_by_capture_number |-> tctreenew2("tccmpint32")]

\* the loop over a bucket list: the first index from i on whose capture has
\* the given id, or listsize when there is none
RECURSIVE find_same_id(_, _, _, _, _)
find_same_id(h, l, id, i, listsize) ==
  IF i >= listsize THEN listsize
  ELSE IF h[tclistval(h, l, i).ret][1].id = id THEN i
       ELSE find_same_id(h, l, id, i + 1, listsize)

\* the bucket list under a key: the TCLIST stored in the tree, or the new one
\* (at self) when the key has none
bucket_open(got, made, h) ==
  IF got.ptr = NULL
  THEN [heap |-> made.heap, list |-> made.list, self |-> made.self]
  ELSE [heap |-> h, list |-> got.ptr[1], self |-> 0]

\* the removal of the capture found at index i (none when i is the list size)
bucket_remove(b, i) ==
  IF i < tclistnum(b.list) THEN tclistremove(b.heap, b.list, i)
  ELSE [heap |-> b.heap, list |-> b.list]

\* the push of gct onto the bucket list
bucket_push(r, gct) == tclistpush(r.heap, r.list, <<gct>>, SizeofCapture)

\* the put of the TCLIST under the key; a new TCLIST keeps its own block
bucket_close(t, kbuf, ksiz, self, pushed) ==
  [tree |-> tctreeput(t, kbuf, ksiz, <<pushed.list>>, SizeofList),
   heap |-> IF self # 0 THEN Store(pushed.heap, self, pushed.list)
            ELSE pushed.heap]

\* add_to_bucket without the loop that removes the capture with the same id
add_to_bucket_noremove(t, b, kbuf, ksiz, gct) ==
  bucket_close(t, kbuf, ksiz, b.self, bucket_push(b, gct))

\* the captures_by_name block of grok_capture_add (and, with the subname as
\* key, its captures_by_subname block) on the bucket list b of the key: remove
\* the capture with the same id, push gct, put the TCLIST back
add_to_bucket(t, b, kbuf, ksiz, gct) ==
  bucket_close(t, kbuf, ksiz, b.self,
    bucket_push(
      bucket_remove(b, find_same_id(b.heap, b.list, gct.id, 0, tclistnum(b.list))),
      gct))

\* the block of one secondary index: get the list under the key or make one,
\* then add gct to it
update_bucket(t, h, kbuf, ksiz, gct) ==
  add_to_bucket(t, bucket_open(tctreeget(t, kbuf, ksiz), tclistnew(h), h),
                kbuf, ksiz, gct)

\* the four trees after the puts and the two bucket updates n and s
indices(g, gct, n, s) ==
  [grok |->
     [captures_by_id |->
        tctreeput(g.captures_by_id, Int32Bytes(gct.id), SizeofInt,
                  <<gct>>, SizeofCapture),
      captures_by_capture_number |->
        tctreeput(g.captures_by_capture_number,
                  Int32Bytes(gct.pcre_capture_number), SizeofInt,
                  <<gct>>, SizeofCapture),
      captures_by_name |-> n.tree,
      captures_by_subname |-> s.tree],
   heap |-> s.heap]

\* grok_capture_add without its captures_by_subname block
update_by_subname_skipped(g, gct, n) ==
  indices(g, gct, n, [tree |-> g.captures_by_subname, heap |-> n.heap])

\* the captures_by_subname block, run on the heap the captures_by_name block left
update_by_subname(g, gct, n) ==
  indices(g, gct, n,
          update_bucket(g.captures_by_subname, n.heap,
                        gct.subname, gct.subname_len, gct))

\* grok_capture_add past its only_renamed test: the four index updates
update_indices(g, h, gct) ==
  update_by_subname(g, gct,
    update_bucket(g.captures_by_name, h, gct.name, gct.name_len, gct))

\* grok_capture_add without its only_renamed test
grok_capture_add_always(g, h, gct, only_renamed) == update_indices(g, h, gct)

\* grok_capture_add
grok_capture_add(g, h, gct, only_renamed) ==
  IF only_renamed /\ ~HasColon(gct.name)
  THEN [grok |-> g, heap |-> h]
  ELSE update_indices(g, h, gct)

\* The lookups return the grok_capture their pointer leads to, or NULL.
grok_capture_get_by_id(g, id) ==
  tctreeget(g.captures_by_id, Int32Bytes(id), SizeofInt).ptr

\* grok_capture_get_by_name that returns the last capture of the list
grok_capture_get_by_name_last(g, h, name) ==
  LET got == tctreeget(g.captures_by_name, name, strlen(name))
  IN  IF got.ptr = NULL THEN NULL
      ELSE LET gct == tclistval(h, got.ptr[1], tclistnum(got.ptr[1]) - 1).ret
           IN  IF gct = 0 THEN NULL ELSE h[gct]

grok_capture_get_by_name(g, h, name) ==
  LET got == tctreeget(g.captures_by_name, name, strlen(name))
  IN  IF got.ptr = NULL THEN NULL
      ELSE LET gct == tclistval(h, got.ptr[1], 0).ret
           IN  IF gct = 0 THEN NULL ELSE h[gct]

grok_capture_get_by_subname(g, h, subname) ==
  LET got == tctreeget(g.captures_by_subname, subname, strlen(subname))
  IN  IF got.ptr = NULL THEN NULL
      ELSE LET gct == tclistval(h, got.ptr[1], 0).ret
           IN  IF gct = 0 THEN NULL ELSE h[gct]

\* grok_capture_get_by_capture_number that searches captures_by_id
get_by_capture_number_in_by_id(g, capture_number) ==
  tctreeget(g.captures_by_id, Int32Bytes(capture_number), SizeofInt).ptr

grok_capture_get_by_capture_number(g, capture_number) ==
  tctreeget(g.captures_by_capture_number, Int32Bytes(capture_number), SizeofInt).ptr

\* grok_capture_walk_init: the iterator of captures_by_id
grok_capture_walk_init(g) ==
  [g EXCEPT !.captures_by_id = tctreeiterinit(g.captures_by_id)]

\* grok_capture_walk_next: the next id, looked up in captures_by_id
grok_capture_walk_next(g, wrap) ==
  LET it == tctreeiternext(g.captures_by_id, wrap)
  IN  [grok |-> [g EXCEPT !.captures_by_id = it.tree],
       ret |-> IF it.ptr = NULL THEN NULL
               ELSE tctreeget(g.captures_by_id, it.ptr, it.sp).ptr]

-----------------------------------------------------------------------------
(* Inputs *)

\* the two comparators a tree can be made with
TreeCmps == {"tccmpint32", "dict_var_str_cmp"}

\* int keys (for tccmpint32) and string keys (for dict_var_str_cmp)
IntKeys == {-1, 1, 256}

StrKeys == {<<>>, <<97>>, <<97, 98>>}

KeysOf(cp) == IF cp = "tccmpint32" THEN IntKeys ELSE StrKeys

\* the kbuf and ksiz a caller passes for a key
Kbuf(cp, k) == IF cp = "tccmpint32" THEN Int32Bytes(k) ELSE CStr(k)

Ksiz(cp, k) == IF cp = "tccmpint32" THEN SizeofInt ELSE Len(k)

\* the values put into the tree under test and pushed onto the list under test
TreeVals == {<<1>>, <<2, 3>>}

ListVals == {<<7>>, <<8, 9>>, <<>>}

\* what a reader finds behind a pointer to a stored copy of v
Stored(v) == v \o <<0>>

EmptyHeap == [a \in {} |-> 0]

-----------------------------------------------------------------------------
(* The Index on its own: put, put_if_absent, get and the iterator *)

Idle ==
  /\ list = 0 /\ heap = EmptyHeap /\ shadow = <<>>
  /\ grok = grok_new /\ reg = [n |-> 0]
  /\ capture = grok_capture_init /\ thr = <<>>

InitTree ==
  /\ \E cp \in TreeCmps :
       /\ tree = tctreenew2(cp)
       /\ last = [k \in KeysOf(cp) |-> NULL]
  /\ yielded = <<>>
  /\ iterst = "none"
  /\ op = [name |-> "new"]
  /\ Idle

\* a new key makes a running iteration say nothing about the keys put
AfterInsert(isnew) ==
  IF isnew /\ iterst \in {"fresh", "done"} THEN "stale" ELSE iterst

TreePut(k, v) ==
  /\ tree' = tctreeput(tree, Kbuf(tree.cp, k), Ksiz(tree.cp, k), v, Len(v))
  /\ last' = [last EXCEPT ![k] = v]
  /\ iterst' = AfterInsert(last[k] = NULL)
  /\ op' = [name |-> "put", k |-> k, v |-> v, over |-> last[k] # NULL /\ last[k] # v]
  /\ UNCHANGED <<yielded, list, heap, shadow, grok, reg, capture, thr>>

TreePutKeep(k, v) ==
  LET r == tctreeputkeep(tree, Kbuf(tree.cp, k), Ksiz(tree.cp, k), v, Len(v))
  IN  /\ tree' = r.tree
      /\ last' = IF last[k] = NULL THEN [last EXCEPT ![k] = v] ELSE last
      /\ iterst' = AfterInsert(last[k] = NULL)
      /\ op' = [name |-> "putkeep", k |-> k, v |-> v, ret |-> r.ret]
      /\ UNCHANGED <<yielded, list, heap, shadow, grok, reg, capture, thr>>

TreeGet(k) ==
  /\ op' = [name |-> "get", k |-> k,
            ret |-> tctreeget(tree, Kbuf(tree.cp, k), Ksiz(tree.cp, k))]
  /\ UNCHANGED <<tree, last, yielded, iterst, list, heap, shadow, grok, reg, capture, thr>>

TreeIterInit ==
  /\ tree' = tctreeiterinit(tree)
  /\ yielded' = <<>>
  /\ iterst' = "fresh"
  /\ op' = [name |-> "iterinit"]
  /\ UNCHANGED <<last, list, heap, shadow, grok, reg, capture, thr>>

\* the ghost follows an iteration from its tctreeiterinit to the first NULL
IterGhost(ptr, sp) ==
  /\ iterst' = IF iterst = "fresh" THEN (IF ptr = NULL THEN "done" ELSE "fresh")
               ELSE IF iterst = "done" THEN "stale" ELSE iterst
  /\ yielded' = IF iterst = "fresh" /\ ptr # NULL
                THEN Append(yielded, [ptr |-> ptr, sp |-> sp]) ELSE yielded

TreeIterNext ==
  /\ tree.iter.alloc
  /\ \E wrap \in BOOLEAN :
       LET r == tctreeiternext(tree, wrap)
       IN  /\ tree' = r.tree
           /\ IterGhost(r.ptr, r.sp)
           /\ op' = [name |-> "iternext", ptr |-> r.ptr, sp |-> r.sp]
  /\ UNCHANGED <<last, list, heap, shadow, grok, reg, capture, thr>>

NextTree ==
  \/ \E k \in DOMAIN last, v \in TreeVals : TreePut(k, v)
  \/ \E k \in DOMAIN last, v \in TreeVals : TreePutKeep(k, v)
  \/ \E k \in DOMAIN last : TreeGet(k)
  \/ TreeIterInit
  \/ TreeIterNext

SpecTree == InitTree /\ [][NextTree]_vars

\* tctreeclear.  An iterator that was on a node is now on a freed node.
TreeClear ==
  /\ tree' = tctreeclear(tree)
  /\ last' = [k \in DOMAIN last |-> NULL]
  /\ iterst' = IF tree.iter.alloc /\ tree.iter.node # NoNode THEN "dangling"
               ELSE IF tree.iter.alloc THEN "stale" ELSE iterst
  /\ op' = [name |-> "clear"]
  /\ UNCHANGED <<yielded, list, heap, shadow, grok, reg, capture, thr>>

\* tctreeiternext on an iterator whose node was freed reads freed memory.
\* TreeIterNext is the outcome in which the freed node and its key still read
\* as they did; here they read as no node.
TreeIterNextFreed ==
  /\ tree.iter.alloc /\ iterst = "dangling"
  /\ tree' = [tree EXCEPT !.iter.node = NoNode]
  /\ iterst' = "stale"
  /\ op' = [name |-> "iternext", ptr |-> NULL, sp |-> 0]
  /\ UNCHANGED <<last, yielded, list, heap, shadow, grok, reg, capture, thr>>

NextClear ==
  \/ NextTree
  \/ TreeClear
  \/ TreeIterNextFreed

SpecClear == InitTree /\ [][NextClear]_vars

-----------------------------------------------------------------------------
(* The Bucket List on its own *)

InitList ==
  /\ LET made == tclistnew(EmptyHeap)
     IN  list = made.self /\ heap = made.heap
  /\ shadow = <<>>
  /\ op = [name |-> "new"]
  /\ tree = tctreenew /\ last = <<>> /\ yielded = <<>> /\ iterst = "none"
  /\ grok = grok_new /\ reg = [n |-> 0]
  /\ capture = grok_capture_init /\ thr = <<>>

\* the sequence without its element at index i (from 0)
RemoveAt(s, i) == SubSeq(s, 1, i) \o SubSeq(s, i + 2, Len(s))

InRange(i, len) == 0 <= i /\ i < len

\* what is behind an element pointer
Deref(h, p) == IF p = 0 THEN NULL ELSE h[p]

\* Addresses are names: the code never compares or orders them, and malloc may
\* return any address that is not in use.  After each operation on the list
\* under test its live objects are named in list order (the TCLIST, the
\* sentinel, then each node followed by its element), so that two heaps that
\* differ only in the addresses malloc chose are one state.
RECURSIVE ListCells(_, _, _)
ListCells(h, node, n) ==
  <<node>> \o (IF h[node].elem # 0 THEN <<h[node].elem>> ELSE <<>>)
           \o (IF n <= 0 THEN <<>> ELSE ListCells(h, h[node].next.v, n - 1))

RECURSIVE Ascending(_)
Ascending(S) ==
  IF S = {} THEN <<>>
  ELSE LET m == CHOOSE x \in S : \A y \in S : x <= y
       IN  <<m>> \o Ascending(S \ {m})

Compact(h, self) ==
  LET l == h[self]
      reach == <<self>> \o ListCells(h, l.head, l.len)
      order == reach \o Ascending(DOMAIN h \ {reach[i] : i \in 1..Len(reach)})
      New(a) == IF \E i \in 1..Len(order) : order[i] = a
                THEN CHOOSE i \in 1..Len(order) : order[i] = a ELSE a
      isnode(a) == \E n \in 0..l.len : Follow(h, l.head, n) = a
  IN  [i \in 1..Len(order) |->
         IF i = 1 THEN [head |-> New(l.head), len |-> l.len]
         ELSE IF isnode(order[i])
              THEN [size |-> h[order[i]].size,
                    elem |-> New(h[order[i]].elem),
                    next |-> IF h[order[i]].next.init
                             THEN Val(New(h[order[i]].next.v)) ELSE Indet]
              ELSE h[order[i]]]

ListPush(v) ==
  /\ heap[list].len < MaxLen
  /\ LET r == tclistpush(heap, heap[list], v, Len(v))
     IN  heap' = Compact(Store(r.heap, list, r.list), list)
  /\ shadow' = Append(shadow, v)
  /\ op' = [name |-> "push", v |-> v]
  /\ UNCHANGED <<list, tree, last, yielded, iterst, grok, reg, capture, thr>>

\* the caller owns the removed element, and frees it once it was read
ListRemove(i) ==
  /\ LET r == tclistremove(heap, heap[list], i)
         h1 == Store(r.heap, list, r.list)
     IN  /\ heap' = Compact(IF r.ret = 0 THEN h1 ELSE Free(h1, r.ret), list)
         /\ op' = [name |-> "remove", i |-> i, ret |-> Deref(r.heap, r.ret), sp |-> r.sp,
                   hit |-> InRange(i, Len(shadow)),
                   was |-> IF InRange(i, Len(shadow)) THEN shadow[i + 1] ELSE NULL]
  /\ shadow' = IF InRange(i, Len(shadow)) THEN RemoveAt(shadow, i) ELSE shadow
  /\ UNCHANGED <<list, tree, last, yielded, iterst, grok, reg, capture, thr>>

ListOver(i, v) ==
  /\ LET r == tclistover(heap, heap[list], i, v, Len(v))
     IN  heap' = Compact(Store(r.heap, list, r.list), list)
  /\ shadow' = IF InRange(i, Len(shadow)) THEN [shadow EXCEPT ![i + 1] = v] ELSE shadow
  /\ op' = [name |-> "over", i |-> i, v |-> v]
  /\ UNCHANGED <<list, tree, last, yielded, iterst, grok, reg, capture, thr>>

ListVal(i) ==
  /\ LET r == tclistval(heap, heap[list], i)
     IN  op' = [name |-> "val", i |-> i, ret |-> Deref(heap, r.ret), sp |-> r.sp]
  /\ UNCHANGED <<list, heap, shadow, tree, last, yielded, iterst, grok, reg, capture, thr>>

Indexes == -2..(MaxLen + 1)

NextList ==
  \/ \E v \in ListVals : ListPush(v)
  \/ \E i \in Indexes : ListRemove(i)
  \/ \E i \in Indexes, v \in ListVals : ListOver(i, v)
  \/ \E i \in Indexes : ListVal(i)

SpecList == InitList /\ [][NextList]_vars

\* the list under test was not deleted
ListLive == list \in DOMAIN heap

\* tclistdel of the list under test; list keeps the address it had
ListDel ==
  /\ heap' = tclistdel(heap, list)
  /\ op' = [name |-> "del", len |-> heap[list].len]
  /\ UNCHANGED <<list, shadow, tree, last, yielded, iterst, grok, reg, capture, thr>>

\* the list operations up to the tclistdel that ends the life of the list
NextListDel ==
  \/ ListLive /\ NextList
  \/ ListLive /\ ListDel

SpecListDel == InitList /\ [][NextListDel]_vars

-----------------------------------------------------------------------------
(* The capture registry: adds and the walk *)

\* the ids, capture numbers, names and patterns of the captures added
Ids == {1, 2, 3}

Slots == {CAPTURE_NUMBER_NOT_SET, 1}

Names == {<<65>>, <<65, Colon, 98>>}

\* every add carries a pattern text of its own (the n-th add the text <<80 + n>>),
\* so that the copy an earlier add left behind can be told from a later one
PatternOf(n) == <<80 + n>>

\* the part of a name after its qualifier separator, as the pattern compiler
\* splits it; the shared empty string when there is none
RECURSIVE AfterColon(_)
AfterColon(chars) ==
  IF chars = <<>> THEN <<>>
  ELSE IF Head(chars) = Colon THEN Tail(chars) ELSE AfterColon(Tail(chars))

Qualified(chars) == \E i \in 1..Len(chars) : chars[i] = Colon

\* a capture as the pattern compiler fills it in before it calls add
MkCapture(id, slot, name, pattern) ==
  [grok_capture_init EXCEPT
     !.id = id, !.pcre_capture_number = slot,
     !.name = CStr(name), !.name_len = Len(name),
     !.subname = IF Qualified(name) THEN CStr(AfterColon(name)) ELSE EMPTYSTR,
     !.subname_len = IF Qualified(name) THEN Len(AfterColon(name)) ELSE 0,
     !.pattern = CStr(pattern), !.pattern_len = Len(pattern)]

\* the captures the n-th add may register
Captures(n) ==
  {MkCapture(id, slot, name, PatternOf(n)) : id \in Ids, slot \in Slots, name \in Names}

\* the captures added before a walk: they differ in their id
WalkCaptures(n) ==
  {MkCapture(id, CAPTURE_NUMBER_NOT_SET, <<65>>, PatternOf(n)) : id \in Ids}

\* the name and subname keys of the captures added
NameKeys == {c.name : c \in Captures(0)}

SubnameKeys == {c.subname : c \in Captures(0)}

\* ghost: the captures under one key in the order of their last add, one per id
Upsert(s, c) == SelectSeq(s, LAMBDA x : x.id # c.id) \o <<c>>

\* no capture / the capture c, in the ghost
None == <<>>

Some(c) == <<c>>

InitReg ==
  /\ grok = grok_new
  /\ heap = EmptyHeap
  /\ reg = [n |-> 0, order |-> <<>>,
            byid |-> [i \in Ids |-> None], byslot |-> [n \in Slots |-> None],
            slotids |-> [n \in Slots |-> {}], sets |-> 0,
            byname |-> [k \in NameKeys |-> <<>>],
            bysubname |-> [k \in SubnameKeys |-> <<>>]]
  /\ yielded = <<>>
  /\ iterst = "none"
  /\ op = [name |-> "new"]
  /\ tree = tctreenew /\ last = <<>> /\ list = 0 /\ shadow = <<>>
  /\ capture = grok_capture_init /\ thr = <<>>

\* the add does nothing: restrict_to_qualified and a name without separator
Skipped(c, only_renamed) ==
  only_renamed /\ \A i \in 1..c.name_len : c.name[i] # Colon

GrokAdd(c, only_renamed) ==
  /\ reg.n < MaxAdds
  /\ \E r \in {grok_capture_add(grok, heap, c, only_renamed)} :
       grok' = r.grok /\ heap' = r.heap
  /\ reg' = IF Skipped(c, only_renamed) THEN [reg EXCEPT !.n = reg.n + 1]
            ELSE [reg EXCEPT !.n = reg.n + 1,
                             !.order = Append(reg.order, c.id),
                             !.byid[c.id] = Some(c),
                             !.byslot[c.pcre_capture_number] = Some(c),
                             !.slotids[c.pcre_capture_number] = @ \cup {c.id},
                             !.byname[c.name] = Upsert(@, c),
                             !.bysubname[c.subname] = Upsert(@, c)]
  /\ iterst' = IF ~Skipped(c, only_renamed) /\ iterst \in {"fresh", "done"}
               THEN "stale" ELSE iterst
  /\ op' = [name |-> "add", gct |-> c, only_renamed |-> only_renamed]
  /\ UNCHANGED <<yielded, tree, last, list, shadow, capture, thr>>

GrokWalkInit ==
  /\ grok' = grok_capture_walk_init(grok)
  /\ yielded' = <<>>
  /\ iterst' = "fresh"
  /\ op' = [name |-> "walk_init"]
  /\ UNCHANGED <<heap, reg, tree, last, list, shadow, capture, thr>>

GrokWalkNext ==
  /\ grok.captures_by_id.iter.alloc
  /\ \E wrap \in BOOLEAN :
       LET r == grok_capture_walk_next(grok, wrap)
       IN  /\ grok' = r.grok
           /\ iterst' = IF iterst = "fresh" THEN (IF r.ret = NULL THEN "done" ELSE "fresh")
                        ELSE IF iterst = "done" THEN "stale" ELSE iterst
           /\ yielded' = IF iterst = "fresh" /\ r.ret # NULL
                         THEN Append(yielded, r.ret) ELSE yielded
           /\ op' = [name |-> "walk_next", ret |-> r.ret]
  /\ UNCHANGED <<heap, reg, tree, last, list, shadow, capture, thr>>

NextReg ==
  \E c \in Captures(reg.n), only_renamed \in BOOLEAN : GrokAdd(c, only_renamed)

SpecReg == InitReg /\ [][NextReg]_vars

NextWalk ==
  \/ \E c \in WalkCaptures(reg.n) : GrokAdd(c, FALSE)
  \/ GrokWalkInit
  \/ GrokWalkNext

SpecWalk == InitReg /\ [][NextWalk]_vars

-----------------------------------------------------------------------------
(* grok_capture_free.  Here the members of a grok_capture are pointers: 0, *)
(* the address of the static EMPTYSTR, or the address of a buffer that the *)
(* capture owns.                                                           *)

\* the address of EMPTYSTR, the first object in memory
EmptyStrAt == malloc(EmptyHeap)

\* sizeof(void *), in cells
SizeofPtr == 1

\* the members grok_capture_free looks at, in its order
Members == <<"name", "subname", "pattern", "predicate_lib", "predicate_func_name",
             "extra_val">>

MemberOf(c, m) == IF m = "extra_val" THEN c.extra.extra_val ELSE c[m]

\* _GCT_STRFREE without its test for EMPTYSTR
GCT_STRFREE_nosentinel(r, member) ==
  IF member # 0
  THEN [heap |-> Free(r.heap, member), freed |-> Append(r.freed, member)]
  ELSE r

\* _GCT_STRFREE: free the member unless it is NULL or EMPTYSTR; freed lists
\* the pointers passed to free
GCT_STRFREE(r, member) ==
  IF member # 0 /\ member # EmptyStrAt
  THEN [heap |-> Free(r.heap, member), freed |-> Append(r.freed, member)]
  ELSE r

\* grok_capture_free
grok_capture_free(h, c) ==
  GCT_STRFREE(
    GCT_STRFREE(
      GCT_STRFREE(
        GCT_STRFREE(
          GCT_STRFREE(
            GCT_STRFREE([heap |-> h, freed |-> <<>>], c.name),
            c.subname),
          c.pattern),
        c.predicate_lib),
      c.predicate_func_name),
    c.extra.extra_val)

\* what a member can be
Kinds == {"null", "sentinel", "owned"}

\* the address in the k-th member: the owned buffers follow EMPTYSTR in memory
AddrOf(kinds, k) ==
  IF kinds[k] = "null" THEN 0
  ELSE IF kinds[k] = "sentinel" THEN EmptyStrAt
  ELSE EmptyStrAt + Cardinality({j \in 1..k : kinds[j] = "owned"})

\* a capture whose members are of the given kinds
CaptureOf(kinds) ==
  [grok_capture_init EXCEPT
     !.name = AddrOf(kinds, 1), !.subname = AddrOf(kinds, 2),
     !.pattern = AddrOf(kinds, 3), !.predicate_lib = AddrOf(kinds, 4),
     !.predicate_func_name = AddrOf(kinds, 5),
     !.extra = [extra_len |-> IF kinds[6] = "null" THEN 0 ELSE SizeofPtr,
                extra_val |-> AddrOf(kinds, 6)]]

\* EMPTYSTR and the buffers the capture owns
MemoryOf(kinds) ==
  [a \in {EmptyStrAt} \cup {AddrOf(kinds, k) : k \in {j \in 1..Len(Members) : kinds[j] = "owned"}}
     |-> IF a = EmptyStrAt THEN EMPTYSTR ELSE CStr(<<a>>)]

InitFree ==
  /\ \E kinds \in [1..Len(Members) -> Kinds] :
       /\ capture = CaptureOf(kinds)
       /\ heap = MemoryOf(kinds)
       /\ op = [name |-> "new", kinds |-> kinds]
  /\ tree = tctreenew /\ last = <<>> /\ yielded = <<>> /\ iterst = "none"
  /\ list = 0 /\ shadow = <<>> /\ grok = grok_new /\ reg = [n |-> 0] /\ thr = <<>>

GrokFree ==
  /\ op.name = "new"
  /\ LET r == grok_capture_free(heap, capture)
     IN  /\ heap' = r.heap
         /\ op' = [name |-> "free", kinds |-> op.kinds, freed |-> r.freed]
  /\ UNCHANGED <<capture, tree, last, yielded, iterst, list, shadow, grok, reg, thr>>

NextFree == GrokFree

SpecFree == InitFree /\ [][NextFree]_vars

-----------------------------------------------------------------------------
(* grok_capture_set_extra and the registry.  The extra_val of a capture is *)
(* the address of a buffer in the heap.                                    *)

\* the payloads (the values of the void *extra argument)
Payloads == {7, 8}

\* the captures the caller holds: they differ in their id
ExtraIds == {1, 2}

ExtraCaptures ==
  {MkCapture(id, CAPTURE_NUMBER_NOT_SET, <<65>>, PatternOf(0)) : id \in ExtraIds}

\* grok_capture_set_extra that writes into the buffer the capture has already
grok_capture_set_extra_inplace(g, h, gct, extra) ==
  IF gct.extra.extra_len # 0
  THEN [grok |-> g, heap |-> [h EXCEPT ![gct.extra.extra_val] = <<extra>>],
        gct |-> gct, ret |-> 0]
  ELSE [grok |-> g,
        heap |-> Store(h, malloc(h), <<extra>>),
        gct |-> [gct EXCEPT !.extra = [extra_len |-> SizeofPtr, extra_val |-> malloc(h)]],
        ret |-> 0]

\* grok_capture_set_extra: a new buffer of the size of a pointer that holds
\* the value of extra; the buffer the capture had is left as it is
grok_capture_set_extra(g, h, gct, extra) ==
  [grok |-> g,
   heap |-> Store(h, malloc(h), <<extra>>),
   gct |-> [gct EXCEPT !.extra = [extra_len |-> SizeofPtr, extra_val |-> malloc(h)]],
   ret |-> 0]

\* the caller takes a new capture, as the pattern compiler fills it in
ExtraInit(c) ==
  /\ capture' = c
  /\ op' = [name |-> "init"]
  /\ UNCHANGED <<grok, heap, reg, tree, last, yielded, iterst, list, shadow, thr>>

ExtraSet(x) ==
  /\ reg.sets < MaxSets
  /\ \E r \in {grok_capture_set_extra(grok, heap, capture, x)} :
       /\ grok' = r.grok /\ heap' = r.heap /\ capture' = r.gct
       /\ op' = [name |-> "set_extra", extra |-> x, ret |-> r.ret]
  /\ reg' = [reg EXCEPT !.sets = reg.sets + 1]
  /\ UNCHANGED <<tree, last, yielded, iterst, list, shadow, thr>>

\* the caller adds the capture it holds
ExtraAdd ==
  /\ capture.id \in Ids
  /\ GrokAdd(capture, FALSE)

NextExtra ==
  \/ \E c \in ExtraCaptures : ExtraInit(c)
  \/ \E x \in Payloads : ExtraSet(x)
  \/ ExtraAdd

SpecExtra == InitReg /\ [][NextExtra]_vars

-----------------------------------------------------------------------------
(* Lookups from several threads once the registry is built.  A lookup runs *)
(* in steps: tcpack of the key, dict_search, tclistval for the two indices *)
(* of bucket lists, return; the steps of the threads interleave.           *)

Threads == {1, 2}

\* the ids of the captures the registry is built from
ReadIds == {1, 2}

\* the captures added before the lookups start: they share name and slot number
ReadCaptures(n) == {MkCapture(id, 1, <<65>>, PatternOf(n)) : id \in ReadIds}

IntKinds == {"by_id", "by_capture_number"}

ListKinds == {"by_name", "by_subname"}

\* the lookups a thread may call, hits and misses
ReadCalls ==
  {[kind |-> "by_id", arg |-> i] : i \in Ids}
    \cup {[kind |-> "by_capture_number", arg |-> n] : n \in Slots}
    \cup {[kind |-> "by_name", arg |-> k] : k \in NameKeys}
    \cup {[kind |-> "by_subname", arg |-> k] : k \in SubnameKeys}

\* the tree a lookup searches
TreeOf(g, kind) ==
  IF kind = "by_id" THEN g.captures_by_id
  ELSE IF kind = "by_capture_number" THEN g.captures_by_capture_number
  ELSE IF kind = "by_name" THEN g.captures_by_name
  ELSE g.captures_by_subname

\* the key tctreeget packs for a lookup
KeyOf(call) ==
  IF call.kind \in IntKinds THEN tcpack(Int32Bytes(call.arg), SizeofInt)
  ELSE tcpack(call.arg, strlen(call.arg))

\* the first element of a bucket list, taken with tclistremove
bucket_first_removed(h, l) ==
  [heap |-> tclistremove(h, l, 0).heap, ret |-> tclistremove(h, l, 0).ret]

\* tclistval(list, 0, &unused_size) in the lookups by name and subname
bucket_first(h, l) == [heap |-> h, ret |-> tclistval(h, l, 0).ret]

\* a lookup has started: from then on there is no add
Reading == op.name \in {"call", "search", "val", "return"}

\* a thread calls a lookup: tctreeget packs the key
ReadCall(t, call) ==
  /\ t \notin DOMAIN thr
  /\ thr' = Store(thr, t, [pc |-> "packed", call |-> call, key |-> KeyOf(call)])
  /\ op' = [name |-> "call", t |-> t]
  /\ UNCHANGED <<grok, heap, reg, capture, tree, last, yielded, iterst, list, shadow>>

\* dict_search in tctreeget
ReadSearch(t) ==
  /\ t \in DOMAIN thr /\ thr[t].pc = "packed"
  /\ thr' = [thr EXCEPT ![t] =
               [pc |-> "searched", call |-> thr[t].call,
                value |-> dict_search(TreeOf(grok, thr[t].call.kind), thr[t].key)]]
  /\ op' = [name |-> "search", t |-> t]
  /\ UNCHANGED <<grok, heap, reg, capture, tree, last, yielded, iterst, list, shadow>>

\* tclistval on the bucket list tctreeget returned
ReadVal(t) ==
  /\ t \in DOMAIN thr /\ thr[t].pc = "searched"
  /\ thr[t].call.kind \in ListKinds /\ thr[t].value.buf # NULL
  /\ \E r \in {bucket_first(heap, thr[t].value.buf[1])} :
       /\ heap' = r.heap
       /\ thr' = [thr EXCEPT ![t] = [pc |-> "listed", call |-> thr[t].call, gct |-> r.ret]]
  /\ op' = [name |-> "val", t |-> t]
  /\ UNCHANGED <<grok, reg, capture, tree, last, yielded, iterst, list, shadow>>

\* what the lookup of a thread returns: the capture behind the pointer, or NULL
Returned(h, th) ==
  IF th.pc = "listed" THEN (IF th.gct = 0 THEN NULL ELSE h[th.gct])
  ELSE th.value.buf

ReadReturn(t) ==
  /\ t \in DOMAIN thr
  /\ \/ thr[t].pc = "listed"
     \/ thr[t].pc = "searched"
          /\ (thr[t].call.kind \in IntKinds \/ thr[t].value.buf = NULL)
  /\ thr' = Free(thr, t)
  /\ op' = [name |-> "return", t |-> t, call |-> thr[t].call, ret |-> Returned(heap, thr[t])]
  /\ UNCHANGED <<grok, heap, reg, capture, tree, last, yielded, iterst, list, shadow>>

NextRead ==
  \/ \E c \in ReadCaptures(reg.n) : ~Reading /\ GrokAdd(c, FALSE)
  \/ \E t \in Threads, call \in ReadCalls : ReadCall(t, call)
  \/ \E t \in Threads : ReadSearch(t)
  \/ \E t \in Threads : ReadVal(t)
  \/ \E t \in Threads : ReadReturn(t)

SpecRead == InitReg /\ [][NextRead]_vars

-----------------------------------------------------------------------------
(* Claims about the Index *)

\* the keys the ghost holds a value for
PutKeys == {k \in DOMAIN last : last[k] # NULL}

\* what tctreeget should return for key k
Expected(k) ==
  IF last[k] = NULL THEN [ptr |-> NULL, sp |-> 0]
  ELSE [ptr |-> Stored(last[k]), sp |-> Len(last[k])]

Lookup(t, k) == tctreeget(t, Kbuf(t.cp, k), Ksiz(t.cp, k))

\* C2: get(k) returns the value of the most recent put for k, NotFound for a
\* key that was never put, and the Index holds one entry per key that was put
\* (an overwriting put adds none).
C2_LastWriteWins ==
  /\ \A k \in DOMAIN last : Lookup(tree, k) = Expected(k)
  /\ Len(tree.dict) = Cardinality(PutKeys)
  /\ op.name = "get" => op.ret = Expected(op.k)

\* a put has just replaced a different value, next to another key's entry
C2_Witness ==
  /\ op.name = "put" /\ op.over
  /\ Lookup(tree, op.k).ptr = Stored(op.v)
  /\ Len(tree.dict) >= 2

\* the order the comparator of the tree is meant to give: ints by value,
\* strings byte by byte with a prefix first
KeyLess(a, b) ==
  IF tree.cp = "tccmpint32" THEN a < b
  ELSE \E i \in 1..(Len(b)) :
         /\ \A j \in 1..(i - 1) : j <= Len(a) /\ a[j] = b[j]
         /\ (i > Len(a) \/ a[i] < b[i])

\* the i-th smallest of the keys put
KeyAtRank(i) ==
  CHOOSE k \in PutKeys : Cardinality({j \in PutKeys : KeyLess(j, k)}) = i - 1

\* C6: from iterate() on, the next calls yield the keys put, each once, in
\* ascending order, starting over at the smallest key at every iterate(), and
\* report exhaustion exactly after the last key.
C6_IterateAscending ==
  iterst \in {"fresh", "done"} =>
    /\ Len(yielded) <= Cardinality(PutKeys)
    /\ \A i \in 1..Len(yielded) :
         yielded[i] = [ptr |-> Stored(SubSeq(Kbuf(tree.cp, KeyAtRank(i)), 1,
                                             Ksiz(tree.cp, KeyAtRank(i)))),
                       sp |-> Ksiz(tree.cp, KeyAtRank(i))]
    /\ iterst = "done" => Len(yielded) = Cardinality(PutKeys)

\* three keys were yielded and the next call reported exhaustion
C6_Witness ==
  /\ iterst = "done" /\ Len(yielded) = 3
  /\ op.name = "iternext" /\ op.ptr = NULL

\* C10: put_if_absent returns true and stores v exactly when k was absent, and
\* otherwise returns false and leaves every entry as it was.
C10_PutKeepNeverOverwrites ==
  [][ op'.name = "putkeep" =>
        LET k == op'.k
        IN  /\ op'.ret = (last[k] = NULL)
            /\ op'.ret = (Lookup(tree, k).ptr = NULL)
            /\ op'.ret => Lookup(tree', k) = [ptr |-> Stored(op'.v), sp |-> Len(op'.v)]
            /\ ~op'.ret => Lookup(tree', k) = Lookup(tree, k) /\ tree'.dict = tree.dict
            /\ \A j \in DOMAIN last \ {k} : Lookup(tree', j) = Lookup(tree, j)
            /\ Len(tree'.dict) = Len(tree.dict) + (IF op'.ret THEN 1 ELSE 0) ]_vars

\* a put_if_absent with another value than the stored one returned false
C10_Witness ==
  /\ op.name = "putkeep" /\ ~op.ret
  /\ Lookup(tree, op.k).ptr # NULL
  /\ Lookup(tree, op.k).ptr # Stored(op.v)

\* C16: after clear() get returns NotFound for every key, and what follows
\* is what a new Index gives: with no key put since, a next reports
\* exhaustion, whether or not an iterator had been started before clear().
C16_ClearedIsNew ==
  [][ /\ op'.name = "clear" =>
           /\ tree'.dict = <<>>
           /\ \A k \in DOMAIN last : Lookup(tree', k) = [ptr |-> NULL, sp |-> 0]
      /\ (op'.name = "iternext" /\ PutKeys = {}) => op'.ptr = NULL ]_vars

\* C18: within an iteration next returns null exactly when no key is left,
\* and for the key of length 0 it returns a reference that is not null and
\* reports the size 0.
C18_ExhaustionDistinct ==
  [][ (op'.name = "iternext" /\ iterst = "fresh") =>
        LET left == Cardinality(PutKeys) - Len(yielded)
        IN  /\ (op'.ptr = NULL) <=> (left = 0)
            /\ (left > 0 /\ Ksiz(tree.cp, KeyAtRank(Len(yielded) + 1)) = 0) =>
                 op'.ptr # NULL /\ op'.sp = 0 ]_vars

\* the key of length 0 was yielded first, with another key left
C18_Witness ==
  /\ op.name = "iternext" /\ op.ptr # NULL /\ op.sp = 0
  /\ iterst = "fresh" /\ Len(yielded) = 1 /\ yielded[1].sp = 0
  /\ Cardinality(PutKeys) >= 2

-----------------------------------------------------------------------------
(* Claims about the Bucket List *)

\* the value at index i of the list under test, as tclistval gives it
ValueAt(h, i) == Deref(h, tclistval(h, h[list], i).ret)

\* C8: the list holds the values pushed, in order, without the removed ones:
\* length() is their number, value_at(i) is the i-th of them, and remove_at(i)
\* returned the value that was at index i.
C8_ListIsSequence ==
  /\ tclistnum(heap[list]) = Len(shadow)
  /\ \A i \in 0..(Len(shadow) - 1) :
       /\ ValueAt(heap, i) = Stored(shadow[i + 1])
       /\ tclistval(heap, heap[list], i).sp = Val(Len(shadow[i + 1]))
  /\ (op.name = "remove" /\ op.hit) =>
       op.ret = Stored(op.was) /\ op.sp = Val(Len(op.was))

\* the middle one of three values was removed
C8_Witness ==
  /\ op.name = "remove" /\ op.hit /\ op.i = 1 /\ Len(shadow) = 2
  /\ shadow[1] # shadow[2] /\ op.was # shadow[2]
  /\ ValueAt(heap, 1) = Stored(shadow[2])

\* C9: an out-of-range value_at or remove_at returns NotFound, an out-of-range
\* overwrite_at does nothing, and none of them changes the list; an in-range
\* overwrite_at changes the value at its index and nothing else.
C9_OutOfRange ==
  [][ LET len == Len(shadow)
          i == op'.i
      IN  /\ (op'.name \in {"val", "remove", "over"} /\ ~InRange(i, len)) =>
                /\ heap' = heap /\ list' = list
                /\ op'.name \in {"val", "remove"} => op'.ret = NULL
          /\ (op'.name = "over" /\ InRange(i, len)) =>
                /\ heap'[list'].len = len
                /\ \A j \in 0..(len - 1) :
                     ValueAt(heap', j) = IF j = i THEN Stored(op'.v) ELSE ValueAt(heap, j) ]_vars

\* an overwrite_at below 0 or at the length of a list that is not empty
C9_Witness ==
  /\ op.name = "over" /\ ~InRange(op.i, heap[list].len)
  /\ heap[list].len >= 2

\* C12: destroy() releases every value still stored in the list and every
\* list node, whatever the list held: after it nothing of the list remains
\* allocated.
C12_DestroyReleasesAll ==
  op.name = "del" => DOMAIN heap = {}

\* an address that is no object's
Wild == -1

\* the node the loop variable head is on after n steps of head = head->next
\* from the sentinel, Wild once a step reads a link that was never assigned or
\* a node that is not allocated
RECURSIVE NodeAt(_, _, _)
NodeAt(h, head, n) ==
  IF n <= 0 THEN head
  ELSE LET p == NodeAt(h, head, n - 1)
       IN  IF p \in DOMAIN h /\ h[p].next.init THEN h[p].next.v ELSE Wild

\* the loop of n steps and the accesses through head after it stay on
\* allocated nodes, none beyond the len-th
Within(h, l, n) ==
  /\ n <= l.len
  /\ \A k \in 0..n : NodeAt(h, l.head, k) \in DOMAIN h

\* C19: whatever operation comes next on the list, and with whatever index,
\* it reads and writes only through the sentinel and the len nodes after it,
\* which are allocated; the link of the last of them was never assigned, and
\* no operation follows it.
C19_NoAccessBeyondLength ==
  ListLive =>
    LET l == heap[list]
    IN  /\ Within(heap, l, tclistpush_steps(l))
        /\ \A i \in Indexes :
             /\ InRange(i, l.len) => Within(heap, l, tclistremove_steps(i) + 1)
             /\ InRange(i, l.len) => Within(heap, l, tclistover_steps(i))
             /\ i < l.len => Within(heap, l, tclistval_steps(i))
        /\ Within(heap, l, tclistdel_steps(l))
        /\ ~heap[NodeAt(heap, l.head, l.len)].next.init

\* the value of the last node of a list of full length was read
C19_Witness ==
  /\ ListLive /\ heap[list].len = MaxLen
  /\ op.name = "val" /\ op.i = MaxLen - 1 /\ op.ret # NULL
  /\ shadow[MaxLen] # shadow[MaxLen - 1]

-----------------------------------------------------------------------------
(* Claims about the capture registry *)

\* the captures of the bucket list a tree stores under a key, in list order
Bucket(t, h, kbuf, ksiz) ==
  LET got == tctreeget(t, kbuf, ksiz)
  IN  IF got.ptr = NULL THEN <<>>
      ELSE [j \in 1..tclistnum(got.ptr[1]) |-> h[tclistval(h, got.ptr[1], j - 1).ret][1]]

\* the captures of all bucket lists of a tree
BucketCaptures(t, h) ==
  UNION { LET b == Bucket(t, h, t.dict[e].key.buf, t.dict[e].key.size)
          IN  {b[j] : j \in 1..Len(b)} : e \in 1..Len(t.dict) }

\* the captures stored as values of a tree
TreeCaptures(t) == {t.dict[e].val.buf[1] : e \in 1..Len(t.dict)}

\* C1: every Capture stored in a secondary index (by-capture-number, the
\* Bucket Lists of by-name and by-subname) has the same field values as the
\* Capture the by-id index stores under the same id.
C1_SecondaryConsistent ==
  \A c \in TreeCaptures(grok.captures_by_capture_number)
           \cup BucketCaptures(grok.captures_by_name, heap)
           \cup BucketCaptures(grok.captures_by_subname, heap) :
    grok_capture_get_by_id(grok, c.id) = Stored(<<c>>)

\* no two captures of a bucket list of the tree have the same id
NoDuplicateIds(t, h) ==
  \A e \in 1..Len(t.dict) :
    LET b == Bucket(t, h, t.dict[e].key.buf, t.dict[e].key.size)
    IN  \A i, j \in 1..Len(b) : b[i].id = b[j].id => i = j

\* an add of c found c's id in the bucket: the bucket is as long as it was
\* and its entry with that id is c
Replaced(before, after, c) ==
  (\E i \in 1..Len(before) : before[i].id = c.id) =>
     /\ Len(after) = Len(before)
     /\ \E i \in 1..Len(after) : after[i] = c

\* C3: no Bucket List of by-name or by-subname holds two Captures with the
\* same id, and an add of a Capture whose id is in the list under its name
\* (its subname) leaves the length of that list unchanged and makes the entry
\* with that id carry the added Capture's values.
C3_NoDuplicateIds ==
  [][ /\ NoDuplicateIds(grok'.captures_by_name, heap')
      /\ NoDuplicateIds(grok'.captures_by_subname, heap')
      /\ (op'.name = "add" /\ ~Skipped(op'.gct, op'.only_renamed)) =>
           LET c == op'.gct
           IN  /\ Replaced(Bucket(grok.captures_by_name, heap, c.name, c.name_len),
                           Bucket(grok'.captures_by_name, heap', c.name, c.name_len), c)
               /\ Replaced(Bucket(grok.captures_by_subname, heap, c.subname, c.subname_len),
                           Bucket(grok'.captures_by_subname, heap', c.subname, c.subname_len),
                           c) ]_vars

\* an id was added again under the one name in use, next to another id
C3_Witness ==
  /\ op.name = "add" /\ Len(reg.order) = 3
  /\ reg.order[1] = op.gct.id /\ reg.order[2] # op.gct.id
  /\ Len(grok.captures_by_name.dict) = 1
  /\ Len(Bucket(grok.captures_by_name, heap, op.gct.name, op.gct.name_len)) = 2
  /\ Len(Bucket(grok.captures_by_subname, heap, op.gct.subname, op.gct.subname_len)) = 2

\* C4: an add with restrict_to_qualified of a name without ':' leaves the four
\* indices as they were (an id not registered before stays NotFound); with a
\* ':' in the name, or without restrict_to_qualified, the add registers c.
C4_RestrictToQualified ==
  [][ op'.name = "add" =>
        LET c == op'.gct
        IN  /\ (op'.only_renamed /\ ~Qualified(SubSeq(c.name, 1, c.name_len))) =>
                  /\ grok' = grok /\ heap' = heap
                  /\ grok_capture_get_by_id(grok, c.id) = NULL
                       => grok_capture_get_by_id(grok', c.id) = NULL
            /\ (~op'.only_renamed \/ Qualified(SubSeq(c.name, 1, c.name_len))) =>
                  grok_capture_get_by_id(grok', c.id) = Stored(<<c>>) ]_vars

\* a skipped add of an id that is not registered, after an add that registered
C4_Witness ==
  /\ op.name = "add" /\ op.only_renamed /\ ~Qualified(SubSeq(op.gct.name, 1, op.gct.name_len))
  /\ Len(reg.order) = 1 /\ reg.n = 2
  /\ grok_capture_get_by_id(grok, op.gct.id) = NULL

\* what a lookup should return for an entry of the ghost
Found(entry) == IF entry = None THEN NULL ELSE Stored(entry)

\* C5: get_by_id(i) returns the Capture of the last add that was not skipped
\* and had id i, get_by_capture_number(n) that of the last one with slot
\* number n (-1 included), and each NotFound when there was none.
C5_SingleValuedLastWriteWins ==
  /\ \A i \in Ids : grok_capture_get_by_id(grok, i) = Found(reg.byid[i])
  /\ \A n \in Slots : grok_capture_get_by_capture_number(grok, n) = Found(reg.byslot[n])
  /\ \A x \in {0, 2, 256} :
       /\ grok_capture_get_by_id(grok, x) = (IF x \in Ids THEN Found(reg.byid[x]) ELSE NULL)
       /\ grok_capture_get_by_capture_number(grok, x) = NULL

\* two ids are registered with the unset slot number, and the lookup of -1
\* gives the one added last
C5_Witness ==
  /\ Len(reg.order) = 2 /\ reg.order[1] # reg.order[2]
  /\ \A i \in {reg.order[1], reg.order[2]} :
       reg.byid[i][1].pcre_capture_number = CAPTURE_NUMBER_NOT_SET
  /\ grok_capture_get_by_capture_number(grok, CAPTURE_NUMBER_NOT_SET)
       = Stored(reg.byid[reg.order[2]])

\* the ids registered, and the i-th smallest of them
RegIds == {i \in Ids : reg.byid[i] # None}

IdAtRank(i) == CHOOSE k \in RegIds : Cardinality({j \in RegIds : j < k}) = i - 1

\* C7: a walk yields the Captures of the by-id index, each once, in ascending
\* id order whatever the order of the adds, and then the end marker.
C7_WalkAscendingById ==
  iterst \in {"fresh", "done"} =>
    /\ Len(yielded) <= Cardinality(RegIds)
    /\ \A i \in 1..Len(yielded) : yielded[i] = Stored(reg.byid[IdAtRank(i)])
    /\ iterst = "done" => Len(yielded) = Cardinality(RegIds)

\* the ids were added in the order 3, 1, 2 and walked as 1, 2, 3 to the end
C7_Witness ==
  /\ reg.order = <<3, 1, 2>>
  /\ iterst = "done"
  /\ Len(yielded) = 3
  /\ <<yielded[1][1].id, yielded[2][1].id, yielded[3][1].id>> = <<1, 2, 3>>
  /\ op.name = "walk_next" /\ op.ret = NULL

\* r is an entry of the bucket list the tree stores under the key
InBucket(t, h, kbuf, ksiz, r) ==
  \E j \in 1..Len(Bucket(t, h, kbuf, ksiz)) : Bucket(t, h, kbuf, ksiz)[j] = r

\* C11: every Capture r of the by-id index is an entry of the Bucket List
\* by-name stores under r.name and of the one by-subname stores under
\* r.subname, and when its slot number is set and no other id was ever added
\* with that slot number, get_by_capture_number of it returns r.
C11_ReflectedInSecondary ==
  \A r \in TreeCaptures(grok.captures_by_id) :
    /\ InBucket(grok.captures_by_name, heap, r.name, r.name_len, r)
    /\ InBucket(grok.captures_by_subname, heap, r.subname, r.subname_len, r)
    /\ (/\ r.pcre_capture_number # CAPTURE_NUMBER_NOT_SET
        /\ reg.slotids[r.pcre_capture_number] \subseteq {r.id}) =>
         grok_capture_get_by_capture_number(grok, r.pcre_capture_number) = Stored(<<r>>)

\* an id was added under one name, then another id, then the first id again
\* under the other name and with a slot number no other id has used
C11_Witness ==
  /\ Len(reg.order) = 3 /\ reg.order[1] = reg.order[3] /\ reg.order[2] # reg.order[3]
  /\ op.name = "add" /\ op.gct.id = reg.order[3]
  /\ op.gct.pcre_capture_number = 1 /\ reg.slotids[1] = {op.gct.id}
  /\ Len(reg.byname[op.gct.name]) = 1
  /\ Cardinality(TreeCaptures(grok.captures_by_id)) = 2
  /\ grok_capture_get_by_capture_number(grok, 1) = Stored(<<op.gct>>)

\* what a lookup by name or subname should return for a bucket of the ghost
FirstOf(bucket) == IF bucket = <<>> THEN NULL ELSE Stored(<<bucket[1]>>)

\* C13: get_by_name(name) returns NotFound exactly when no add that was not
\* skipped used the name, and otherwise the Capture at index 0 of the Bucket
\* List under the name: of the ids added under the name, the one whose last
\* add under it is the oldest.  get_by_subname does the same on subnames.
C13_GetByNameFirst ==
  /\ \A k \in NameKeys :
       /\ grok_capture_get_by_name(grok, heap, k) = FirstOf(reg.byname[k])
       /\ Bucket(grok.captures_by_name, heap, k, strlen(k)) = reg.byname[k]
  /\ \A k \in SubnameKeys :
       /\ grok_capture_get_by_subname(grok, heap, k) = FirstOf(reg.bysubname[k])
       /\ Bucket(grok.captures_by_subname, heap, k, strlen(k)) = reg.bysubname[k]
  /\ grok_capture_get_by_name(grok, heap, CStr(<<66>>)) = NULL
  /\ grok_capture_get_by_subname(grok, heap, CStr(<<99>>)) = NULL

\* two ids are under one name and the one added first was added again: the
\* lookup gives the other one
C13_Witness ==
  /\ Len(reg.order) = 3 /\ reg.order[1] = reg.order[3] /\ reg.order[2] # reg.order[3]
  /\ op.name = "add"
  /\ Len(reg.byname[op.gct.name]) = 2
  /\ grok_capture_get_by_name(grok, heap, op.gct.name) = Stored(<<reg.byid[reg.order[2]][1]>>)
  /\ grok_capture_get_by_name(grok, heap, CStr(<<66>>)) = NULL

-----------------------------------------------------------------------------
(* Claims about release *)

\* the members of the released capture that are buffers it owns
OwnedMembers == {k \in 1..Len(Members) : op.kinds[k] = "owned"}

\* C15: release(c) frees each buffer c owns once and nothing else, whatever
\* mix of null, EMPTYSTR and owned buffers its members are: EMPTYSTR is never
\* passed to free and stays in memory.
C15_ReleaseSparesSentinel ==
  op.name = "free" =>
    /\ {op.freed[i] : i \in 1..Len(op.freed)}
         = {MemberOf(capture, Members[k]) : k \in OwnedMembers}
    /\ Len(op.freed) = Cardinality(OwnedMembers)
    /\ \A i \in 1..Len(op.freed) : op.freed[i] # EmptyStrAt /\ op.freed[i] # 0
    /\ DOMAIN heap = {EmptyStrAt}
    /\ heap[EmptyStrAt] = EMPTYSTR

\* a capture with an owned name, EMPTYSTR as subname and no predicate was
\* released
C15_Witness ==
  /\ op.name = "free"
  /\ op.kinds[1] = "owned" /\ op.kinds[2] = "sentinel" /\ op.kinds[3] = "owned"
  /\ op.kinds[4] = "null"
  /\ Len(op.freed) >= 2
  /\ capture.subname = EmptyStrAt

-----------------------------------------------------------------------------
(* Claims about the copies of a capture and its extra *)

\* the captures of the secondary indices
SecondaryCaptures ==
  TreeCaptures(grok.captures_by_capture_number)
    \cup BucketCaptures(grok.captures_by_name, heap)
    \cup BucketCaptures(grok.captures_by_subname, heap)

\* C17: the records one add writes into the four indices share no storage:
\* the extra buffer of a by-id entry is not the extra buffer of an entry of
\* by-capture-number, by-name or by-subname.
C17_IndependentCopies ==
  \A r \in TreeCaptures(grok.captures_by_id) : \A c \in SecondaryCaptures :
    (r.extra.extra_len # 0 /\ c.extra.extra_len # 0) =>
       r.extra.extra_val # c.extra.extra_val

\* the extra bytes of the capture a lookup returned
ExtraOf(h, found) ==
  IF found = NULL THEN NULL
  ELSE IF found[1].extra.extra_len = 0 THEN NULL
  ELSE h[found[1].extra.extra_val]

\* the extras that the lookups give for every key
AllExtras(g, h) ==
  [byid |-> [i \in Ids |-> ExtraOf(h, grok_capture_get_by_id(g, i))],
   byslot |-> [n \in Slots |-> ExtraOf(h, grok_capture_get_by_capture_number(g, n))],
   byname |-> [k \in NameKeys |-> ExtraOf(h, grok_capture_get_by_name(g, h, k))],
   bysubname |-> [k \in SubnameKeys |-> ExtraOf(h, grok_capture_get_by_subname(g, h, k))]]

\* C20: set_extra returns 0, gives the caller's capture a new extra of the
\* size of a pointer that holds the payload, and changes nothing else: not
\* the other members of the capture, not the four indices, not a buffer that
\* existed, so every lookup returns the extra it returned before; the add of
\* the capture then makes the lookup by its id return the new extra.
C20_SetExtraOnlyCaller ==
  [][ /\ op'.name = "set_extra" =>
           /\ op'.ret = 0
           /\ capture' = [capture EXCEPT !.extra = capture'.extra]
           /\ capture'.extra.extra_len = SizeofPtr
           /\ heap'[capture'.extra.extra_val] = <<op'.extra>>
           /\ grok' = grok
           /\ \A a \in DOMAIN heap : heap'[a] = heap[a]
           /\ AllExtras(grok', heap') = AllExtras(grok, heap)
      /\ op'.name = "add" =>
           ExtraOf(heap', grok_capture_get_by_id(grok', capture.id))
             = ExtraOf(heap, <<capture>>) ]_vars

\* the capture was added with one extra and then given another: the lookup
\* by its id still gives the first
C20_Witness ==
  /\ op.name = "set_extra"
  /\ capture.id \in Ids
  /\ ExtraOf(heap, grok_capture_get_by_id(grok, capture.id)) # NULL
  /\ ExtraOf(heap, grok_capture_get_by_id(grok, capture.id)) # ExtraOf(heap, <<capture>>)
  /\ ExtraOf(heap, grok_capture_get_by_name(grok, heap, capture.name))
       = ExtraOf(heap, grok_capture_get_by_id(grok, capture.id))

-----------------------------------------------------------------------------
(* Claims about concurrent lookups *)

\* what the lookup returns when it runs alone
Alone(g, h, call) ==
  IF call.kind = "by_id" THEN grok_capture_get_by_id(g, call.arg)
  ELSE IF call.kind = "by_capture_number" THEN grok_capture_get_by_capture_number(g, call.arg)
  ELSE IF call.kind = "by_name" THEN grok_capture_get_by_name(g, h, call.arg)
  ELSE grok_capture_get_by_subname(g, h, call.arg)

\* C14: with the adds over, the steps of the lookups of several threads, in
\* whatever order they interleave, change neither the four indices nor the
\* bucket lists, and every lookup returns what it returns when run alone.
C14_ConcurrentReads ==
  [][ op'.name \in {"call", "search", "val", "return"} =>
        /\ grok' = grok /\ heap' = heap
        /\ op'.name = "return" => op'.ret = Alone(grok, heap, op'.call) ]_vars

\* a lookup by name returned the first of two captures while the other
\* thread was between the search and the read of its lookup by subname
C14_Witness ==
  /\ op.name = "return" /\ op.call.kind = "by_name" /\ op.ret # NULL
  /\ Len(reg.byname[op.call.arg]) = 2
  /\ \E t \in DOMAIN thr :
       /\ t # op.t /\ thr[t].pc = "searched"
       /\ thr[t].call.kind = "by_subname" /\ thr[t].value.buf # NULL

====
